---------------------------- MODULE Spec2Model ----------------------------
(***************************************************************************)
(* A model of the FAWV vault build pipeline:                               *)
(*   - the upload-session endpoint POST /upload/start (routes/upload),     *)
(*   - the client-side archive hash hashFilesSHA256 (web App.tsx),         *)
(*   - the upload executor uploadToS3 (web App.tsx),                       *)
(*   - the build flow of the App component (web App.tsx),                  *)
(*   - the manifest endpoint POST /commit (api routes).                    *)
(* Strings are sequences of one-character strings, so that the regular    *)
(* expression replacements and the hash input stream are computed, not    *)
(* assumed.                                                                *)
(***************************************************************************)
EXTENDS Integers, Sequences, FiniteSets, TLC

VARIABLES
    \* ---- key derivation of one relative path (routes/upload)
    kPath,          \* the relPath of the request
    kKey,           \* the derived objectKey, or NoKey before derivation
    \* ---- POST /upload/start (routes/upload)
    sPc,            \* "idle" | "awaiting" | "done": position of the handler
    sBody,          \* the request body {sessionId, files}
    sSid,           \* the sid chosen by the handler, NoSid before
    sTasks,         \* per file: "pending" | "fulfilled" | "rejected" (getSignedUrl)
    sSigned,        \* number of signed URLs the credential issuer was asked for and gave
    sResp,          \* the response sent, NoResp before
    \* ---- hashFilesSHA256 (web App.tsx)
    hList,          \* the DemoFile list handed to hashFilesSHA256
    hDigest,        \* the digest returned, NoDigest before
    \* ---- the App component (web App.tsx): React state
    step,           \* "selectProduct" | "upload" | "pricing" | "manifest" | "minting" | "vault"
    started,
    product,        \* "null" or a Product
    escrowYears,
    files,          \* DemoFile[]
    sessionId,      \* useState(() => randomHex(8)): fixed when the component mounts
    uploading,
    uploadPct,
    uploadedItems,  \* PresignItem[] | null
    vaultName,
    acceptedPrice,
    manifest,
    visibility,     \* "null" | "PUBLIC" | "PRIVATE"
    endowmentUsd,   \* the text of the USD field
    endowmentError, \* whether an error text is shown
    demoEthPrice,
    lockedEndowment,
    archiveHash,
    tokenData,
    showTokenModal,
    \* ---- the App component: asynchronous calls in flight
    batches,        \* the calls of onDrop / uploadToS3, in the order they were made
    keepLog,        \* whether finished calls and the PUTs issued stay on record
    hashing,        \* proceedAfterPricing calls awaiting hashFilesSHA256
    mints,          \* startMint calls awaiting a sleep
    \* ---- POST /commit (api routes)
    cReqs,          \* the requests received, each with the position of its handler
    store,          \* the bucket: object key -> object
    chainNextId,    \* the contract's nextId: the id the next minted token gets
    chainEnv,       \* whether the chain environment variables are set
    \* ---- calculatePrice (web App.tsx)
    pBytes,         \* totalBytes
    pProduct,       \* product
    pYears,         \* escrowYears
    pQuote,         \* the price returned, NoQuote before
    \* the hashing routines: UploadModule's chunked sha256Hex, App's hashFilesSHA256
    cPc,            \* idle, read (await arrayBuffer), frame (await requestAnimationFrame),
                    \* done (sha256Hex); file, blob, hashed (hashFilesSHA256)
    cTotal,         \* file.size
    cOffset,        \* offset
    cOnProgress,    \* whether an onProgress callback was passed
    cLog,           \* what the routine did so far: update, progress, yield, digest
    cHeld,          \* bytes of file data the routine holds in buffers
    cList,          \* hashFilesSHA256: the files, as [pathLen, size]
    cRead,          \* hashFilesSHA256: how many files were read
    \* the file collector: traverseEntry, fromDataTransfer, fromInputFileList
    tPc,            \* idle, done
    tKind,          \* what tIn is: entry, items (DataTransferItemList) or input (FileList)
    tIn,            \* the input
    tOut            \* the DemoFile list returned

keyVars   == <<kPath, kKey>>
startVars == <<sPc, sBody, sSid, sTasks, sSigned, sResp>>
hashVars  == <<hList, hDigest>>
\* state the uploader writes
upVars    == <<files, uploading, uploadPct, uploadedItems, batches, keepLog>>
\* state only the build flow writes
formVars  == <<started, escrowYears, vaultName, acceptedPrice, manifest, visibility,
               endowmentUsd, endowmentError, demoEthPrice, lockedEndowment,
               archiveHash, tokenData, showTokenModal, hashing, mints>>
appVars   == <<step, product, sessionId, upVars, formVars>>
commitVars == <<cReqs, store, chainNextId, chainEnv>>
priceVars == <<pBytes, pProduct, pYears, pQuote>>
chunkVars == <<cPc, cTotal, cOffset, cOnProgress, cLog, cHeld, cList, cRead>>
travVars == <<tPc, tKind, tIn, tOut>>
vars      == <<keyVars, startVars, hashVars, appVars, commitVars, priceVars, chunkVars, travVars>>

\* what the actions of one part leave alone
notKey    == <<startVars, hashVars, appVars, commitVars, priceVars, chunkVars, travVars>>
notStart  == <<keyVars, hashVars, appVars, commitVars, priceVars, chunkVars, travVars>>
notHash   == <<keyVars, startVars, appVars, commitVars, priceVars, chunkVars, travVars>>
notApp    == <<keyVars, startVars, hashVars, commitVars, priceVars, chunkVars, travVars>>
notCommit == <<keyVars, startVars, hashVars, appVars, priceVars, chunkVars, travVars>>
notPrice == <<keyVars, startVars, hashVars, appVars, commitVars, chunkVars, travVars>>
notChunk == <<keyVars, startVars, hashVars, appVars, commitVars, priceVars, travVars>>
notTrav == <<keyVars, startVars, hashVars, appVars, commitVars, priceVars, chunkVars>>

-----------------------------------------------------------------------------
(* Bounds of the model *)

\* longest relative path drawn for the key derivation
MaxPathLen == 5
\* most files in one /upload/start request
MaxFiles == 2
\* most files in a list handed to hashFilesSHA256, and their longest content
MaxHashFiles == 2
MaxBytes == 2
\* most calls of onDrop in one behaviour of the uploader
MaxBatches == 2
\* most proceedAfterPricing calls awaiting their hash at once
MaxHashing == 2
\* most startMint calls awaiting a sleep at once
MaxMints == 1
\* most POST /commit requests received
MaxCommits == 2
\* how far from 0, 1 GiB and 2 GiB - 1 the priced byte counts lie
MaxByteOffset == 2
MaxChunks == 3
MaxVaultFiles == 2
MaxDepth == 2
MaxChildren == 2

-----------------------------------------------------------------------------
(* Strings *)

\* a string is a sequence of one-character strings

\* all sequences over S of length at most n
RECURSIVE SeqsUpTo(_, _)
SeqsUpTo(S, n) ==
    IF n = 0 THEN {<<>>}
    ELSE LET shorter == SeqsUpTo(S, n - 1)
         IN  shorter \cup {<<c>> \o t : c \in S, t \in {u \in shorter : Len(u) = n - 1}}

\* the characters relative paths are drawn from: the two the sanitizer
\* looks at and an ordinary one
PathChars == {".", "/", "a"}

\* String.prototype.replace(/^([./])+/, ""): drop the longest prefix of '.' and '/'
RECURSIVE StripLeadingDotSlash(_)
StripLeadingDotSlash(s) ==
    IF s # <<>> /\ Head(s) \in {".", "/"} THEN StripLeadingDotSlash(Tail(s)) ELSE s

\* String.prototype.replace(/\.\.\//g, ""): one left-to-right pass removing each
\* non-overlapping occurrence of "../"; the scan resumes after a removed match
RECURSIVE RemoveDotDotSlash(_)
RemoveDotDotSlash(s) ==
    IF s = <<>> THEN <<>>
    ELSE IF Len(s) >= 3 /\ s[1] = "." /\ s[2] = "." /\ s[3] = "/"
         THEN RemoveDotDotSlash(SubSeq(s, 4, Len(s)))
         ELSE <<Head(s)>> \o RemoveDotDotSlash(Tail(s))

\* const safePath = f.relPath.replace(/^([./])+/, "").replace(/\.\.\//g, "")
safePath(relPath) == RemoveDotDotSlash(StripLeadingDotSlash(relPath))

\* the namespace prefix `demo/${sid}/`
KeyPrefix(sid) == <<"d", "e", "m", "o", "/">> \o sid \o <<"/">>

\* const key = `demo/${sid}/${safePath}`
objectKey(sid, relPath) == KeyPrefix(sid) \o safePath(relPath)

\* the '/'-separated segments of a string
RECURSIVE Segments(_)
Segments(s) ==
    IF \A i \in 1..Len(s) : s[i] # "/" THEN <<s>>
    ELSE LET i == CHOOSE j \in 1..Len(s) : s[j] = "/" /\ \A k \in 1..(j - 1) : s[k] # "/"
         IN  <<SubSeq(s, 1, i - 1)>> \o Segments(SubSeq(s, i + 1, Len(s)))

HasDotDotSegment(s) == \E i \in 1..Len(Segments(s)) : Segments(s)[i] = <<".", ".">>

IsPrefix(p, s) == Len(p) <= Len(s) /\ SubSeq(s, 1, Len(p)) = p

-----------------------------------------------------------------------------
(* Key derivation of one relative path *)

NoKey == <<"?">>
\* a session id that passes the allow-list pattern
KeySid == <<"s", "e", "s", "s", "0", "1">>

KeyInit == kPath \in SeqsUpTo(PathChars, MaxPathLen) /\ kKey = NoKey
KeyIdle == kPath = <<>> /\ kKey = NoKey

\* lines 54-55 of the map callback, for one file
DeriveKey ==
    /\ kKey = NoKey
    /\ kKey' = objectKey(KeySid, kPath)
    /\ UNCHANGED <<kPath, notKey>>

KeyNext == DeriveKey

-----------------------------------------------------------------------------
(* POST /upload/start *)

\* the characters of the class [a-zA-Z0-9_-]
SidChars ==
    {"a","b","c","d","e","f","g","h","i","j","k","l","m","n","o","p","q","r","s","t",
     "u","v","w","x","y","z","A","B","C","D","E","F","G","H","I","J","K","L","M","N",
     "O","P","Q","R","S","T","U","V","W","X","Y","Z","0","1","2","3","4","5","6","7",
     "8","9","_","-"}

\* /^[a-zA-Z0-9_-]{6,}$/.test(sessionId)
SidPatternTest(id) ==
    Len(id) >= 6 /\ \A i \in 1..Len(id) : id[i] \in SidChars

ChooseSidUntested(id, generated) ==
    IF id # <<>> THEN id ELSE generated

\* sessionId && test(sessionId) ? sessionId : crypto.randomBytes(8).toString("hex");
\* an absent sessionId and the empty string are both falsy, and both are <<>> here
ChooseSid(id, generated) ==
    IF id # <<>> /\ SidPatternTest(id) THEN id ELSE generated

\* what crypto.randomBytes(8).toString("hex") may return: 16 hex characters
GeneratedSids ==
    { <<"0","f","3","a","9","c","1","e","7","7","b","2","4","d","6","8">>,
      <<"c","4","5","e","0","0","a","1","9","9","f","f","2","b","3","d">> }

\* the sessionId values a client may send: none, a valid one, a short one,
\* one with characters outside the class
SessionIdHints ==
    { <<>>,
      <<"s","e","s","s","-","1">>,
      <<"a","b","c">>,
      <<".",".","/",".",".","/","x">> }

\* the files a request may name: relPath and optional contentType ("" when absent)
FileReqPool ==
    { [relPath |-> <<"a">>,               contentType |-> ""],
      [relPath |-> <<"/","a">>,           contentType |-> "text/plain"],
      [relPath |-> <<"a","/",".",".">>,   contentType |-> ""] }

\* the request bodies: files may be missing altogether (hasFiles = FALSE)
Bodies ==
    { [sessionId |-> h, hasFiles |-> TRUE, files |-> fs] :
          h \in SessionIdHints, fs \in SeqsUpTo(FileReqPool, MaxFiles) }
    \cup { [sessionId |-> h, hasFiles |-> FALSE, files |-> <<>>] : h \in SessionIdHints }

NoSid  == <<>>
NoBody == [sessionId |-> <<>>, hasFiles |-> FALSE, files |-> <<>>]
NoResp == [status |-> 0, error |-> "", sessionId |-> <<>>, items |-> <<>>]

BucketUri == <<"s","3",":","/","/","b","/">>

\* if (!files?.length)
NoFilesMissingOnly(body) == ~body.hasFiles
NoFiles(body) == ~body.hasFiles \/ Len(body.files) = 0

\* the object one map callback returns once its signed URL is there
ItemFor(sid, f) ==
    [ relPath     |-> safePath(f.relPath),
      objectKey   |-> objectKey(sid, f.relPath),
      s3Uri       |-> BucketUri \o objectKey(sid, f.relPath),
      uploadUrl   |-> [key |-> objectKey(sid, f.relPath), expiresIn |-> 3600],
      contentType |-> IF f.contentType = "" THEN "application/octet-stream"
                      ELSE f.contentType ]

\* res.json({ sessionId: sid, items })
OkResp ==
    [ status |-> 200, error |-> "", sessionId |-> sSid,
      items |-> [i \in 1..Len(sBody.files) |-> ItemFor(sSid, sBody.files[i])] ]

\* the items of the callbacks that were fulfilled, in request order
RECURSIVE FulfilledItems(_)
FulfilledItems(n) ==
    IF n = 0 THEN <<>>
    ELSE FulfilledItems(n - 1) \o
         (IF sTasks[n] = "fulfilled" THEN <<ItemFor(sSid, sBody.files[n])>> ELSE <<>>)

ErrRespPartial ==
    [ status |-> 500, error |-> "presign_failed", sessionId |-> sSid,
      items |-> FulfilledItems(Len(sTasks)) ]
\* catch (err) { res.status(500).json({ error: "presign_failed" }) }
ErrResp ==
    [ status |-> 500, error |-> "presign_failed", sessionId |-> <<>>, items |-> <<>> ]

StartInit ==
    /\ sPc = "idle" /\ sBody = NoBody /\ sSid = NoSid
    /\ sTasks = <<>> /\ sSigned = 0 /\ sResp = NoResp
StartIdle == StartInit

\* the handler up to `await Promise.all(...)`: the guard, the sid, and every map
\* callback run to its `await getSignedUrl`
UploadStart(body) ==
    /\ sPc = "idle"
    /\ sBody' = body
    /\ IF NoFiles(body)
       THEN /\ sResp' = [NoResp EXCEPT !.status = 400, !.error = "no_files"]
            /\ sPc' = "done"
            /\ UNCHANGED <<sSid, sTasks>>
       ELSE /\ \E g \in GeneratedSids : sSid' = ChooseSid(body.sessionId, g)
            /\ sTasks' = [i \in 1..Len(body.files) |-> "pending"]
            /\ sPc' = "awaiting"
            /\ UNCHANGED sResp
    /\ UNCHANGED <<sSigned, notStart>>

\* getSignedUrl of file i resolves: a grant is issued (also after a sibling failed
\* and the response went out: Promise.all cancels nothing)
SignOk(i) ==
    /\ i \in DOMAIN sTasks /\ sTasks[i] = "pending"
    /\ sTasks' = [sTasks EXCEPT ![i] = "fulfilled"]
    /\ sSigned' = sSigned + 1
    /\ UNCHANGED <<sPc, sBody, sSid, sResp, notStart>>

\* getSignedUrl of file i rejects
SignFail(i) ==
    /\ i \in DOMAIN sTasks /\ sTasks[i] = "pending"
    /\ sTasks' = [sTasks EXCEPT ![i] = "rejected"]
    /\ UNCHANGED <<sPc, sBody, sSid, sSigned, sResp, notStart>>

\* Promise.all fulfils once every callback has: res.json
RespondOk ==
    /\ sPc = "awaiting"
    /\ \A i \in DOMAIN sTasks : sTasks[i] = "fulfilled"
    /\ sResp' = OkResp
    /\ sPc' = "done"
    /\ UNCHANGED <<sBody, sSid, sTasks, sSigned, notStart>>

\* Promise.all rejects with the first rejection: the catch block
RespondErr ==
    /\ sPc = "awaiting"
    /\ \E i \in DOMAIN sTasks : sTasks[i] = "rejected"
    /\ sResp' = ErrResp
    /\ sPc' = "done"
    /\ UNCHANGED <<sBody, sSid, sTasks, sSigned, notStart>>

StartNext ==
    \/ \E body \in Bodies : UploadStart(body)
    \/ \E i \in 1..MaxFiles : SignOk(i)
    \/ \E i \in 1..MaxFiles : SignFail(i)
    \/ RespondOk
    \/ RespondErr

-----------------------------------------------------------------------------
(* hashFilesSHA256 *)

\* the rank of a character under localeCompare (root collation: white space,
\* then punctuation, then digits, then letters)
CharRank(c) ==
    CASE c = "\n" -> 0
      [] c = "." -> 1
      [] c = "/" -> 2
      [] c = "a" -> 3
      [] c = "b" -> 4
      [] OTHER   -> 5

\* a.localeCompare(b) < 0, = 0, > 0 as -1, 0, 1
RECURSIVE localeCompare(_, _)
localeCompare(a, b) ==
    IF a = <<>> /\ b = <<>> THEN 0
    ELSE IF a = <<>> THEN -1
    ELSE IF b = <<>> THEN 1
    ELSE IF CharRank(Head(a)) < CharRank(Head(b)) THEN -1
    ELSE IF CharRank(Head(a)) > CharRank(Head(b)) THEN 1
    ELSE localeCompare(Tail(a), Tail(b))

\* insert x after every element that does not compare greater: a stable insertion
RECURSIVE InsertStable(_, _)
InsertStable(sorted, x) ==
    IF sorted = <<>> THEN <<x>>
    ELSE IF localeCompare(Head(sorted).fullPath, x.fullPath) > 0
         THEN <<x>> \o sorted
         ELSE <<Head(sorted)>> \o InsertStable(Tail(sorted), x)

\* [...list].sort((a, b) => a.fullPath.localeCompare(b.fullPath)): Array.prototype.sort
\* is stable, so entries with equal paths keep the order of the list
RECURSIVE SortByPath(_)
SortByPath(list) ==
    IF list = <<>> THEN <<>>
    ELSE InsertStable(SortByPath(SubSeq(list, 1, Len(list) - 1)), list[Len(list)])

\* the blob parts pushed in the loop: path, "\n", then the file's bytes
RECURSIVE HashStream(_)
HashStream(sorted) ==
    IF sorted = <<>> THEN <<>>
    ELSE Head(sorted).fullPath \o <<"\n">> \o Head(sorted).bytes \o HashStream(Tail(sorted))

\* SHA-256 taken as injective: the digest stands for the bytes it was fed
sha256Hex(buf) == [sha256 |-> buf]

hashFilesSHA256(list) == sha256Hex(HashStream(SortByPath(list)))

NoDigest == [sha256 |-> <<"?">>]

HashPaths == {<<"a">>, <<"b">>}
HashBytes == SeqsUpTo({"b", "\n"}, MaxBytes)
HashFilePool == {[fullPath |-> p, bytes |-> c] : p \in HashPaths, c \in HashBytes}

HashInit == hList \in SeqsUpTo(HashFilePool, MaxHashFiles) /\ hDigest = NoDigest
HashIdle == hList = <<>> /\ hDigest = NoDigest

HashFiles ==
    /\ hDigest = NoDigest
    /\ hDigest' = hashFilesSHA256(hList)
    /\ UNCHANGED <<hList, notHash>>

HashNext == HashFiles

-----------------------------------------------------------------------------
(* The App component: state after mount *)

\* randomHex(8): 16 hex characters, drawn when the component mounts
ClientSids == GeneratedSids

NullItems == [isNull |-> TRUE, items |-> <<>>]
NullNum   == [k |-> "fin", n |-> 0, d |-> 1]
NullLock  == [isNull |-> TRUE, usd |-> NullNum, eth |-> NullNum, usdPerEth |-> NullNum]
NullToken == [isNull |-> TRUE, name |-> <<>>, hash |-> [sha256 |-> <<>>]]
\* useState<number>(3200)
InitialEthPrice == [k |-> "fin", n |-> 3200, d |-> 1]
\* useState<string>(""): the archive hash before any was computed
EmptyHash == [sha256 |-> <<>>]

\* the useState initial values
AppInit ==
    /\ step = "selectProduct" /\ started = FALSE /\ product = "null"
    /\ escrowYears = 3 /\ files = <<>> /\ sessionId \in ClientSids
    /\ uploading = FALSE /\ uploadPct = 0 /\ uploadedItems = NullItems
    /\ vaultName = <<>> /\ acceptedPrice = FALSE /\ manifest = <<>>
    /\ visibility = "null" /\ endowmentUsd = <<>> /\ endowmentError = FALSE
    /\ demoEthPrice = InitialEthPrice /\ lockedEndowment = NullLock
    /\ archiveHash = EmptyHash /\ tokenData = NullToken /\ showTokenModal = FALSE
    /\ batches = <<>> /\ hashing = <<>> /\ mints = <<>>
    /\ keepLog \in BOOLEAN

AppIdle ==
    /\ step = "selectProduct" /\ started = FALSE /\ product = "null"
    /\ escrowYears = 3 /\ files = <<>> /\ sessionId = <<>>
    /\ uploading = FALSE /\ uploadPct = 0 /\ uploadedItems = NullItems
    /\ vaultName = <<>> /\ acceptedPrice = FALSE /\ manifest = <<>>
    /\ visibility = "null" /\ endowmentUsd = <<>> /\ endowmentError = FALSE
    /\ demoEthPrice = InitialEthPrice /\ lockedEndowment = NullLock
    /\ archiveHash = EmptyHash /\ tokenData = NullToken /\ showTokenModal = FALSE
    /\ batches = <<>> /\ hashing = <<>> /\ mints = <<>>
    /\ keepLog = FALSE

Products == {"Permanence", "Permanence+", "Heirloom"}

\* "Build a Vault" / "Start Vault Build": setStarted(true)
StartBuild ==
    /\ ~started
    /\ started' = TRUE
    /\ UNCHANGED <<step, product, sessionId, upVars, escrowYears, vaultName,
                   acceptedPrice, manifest, visibility, endowmentUsd, endowmentError,
                   demoEthPrice, lockedEndowment, archiveHash, tokenData,
                   showTokenModal, hashing, mints, notApp>>

\* ProductCard onPick: setProduct(p); setStep("upload")
PickProduct(p) ==
    /\ started /\ step = "selectProduct"
    /\ product' = p
    /\ step' = "upload"
    /\ UNCHANGED <<sessionId, upVars, formVars, notApp>>

-----------------------------------------------------------------------------
(* uploadToS3 *)

\* the local files of the uploader's behaviours
FileA  == [fullPath |-> <<"a">>, bytes |-> <<>>]
FileA2 == [fullPath |-> <<"a">>, bytes |-> <<"b">>]
FileB  == [fullPath |-> <<"b">>, bytes |-> <<"b">>]
FileC  == [fullPath |-> <<"b", "/", "a">>, bytes |-> <<>>]
FileSA == [fullPath |-> <<".", "a">>, bytes |-> <<"b">>]

\* what fromDataTransfer may return for a drop: nothing, one file, three files,
\* a file whose path the server rewrites, two files with the same path
XferPicks ==
    { <<>>, <<FileA>>, <<FileA, FileB, FileC>>, <<FileSA, FileB>>, <<FileA, FileA2>> }

\* Math.round((num / den) * 100) for num >= 0, den > 0
RoundPct(num, den) == (200 * num + den) \div (2 * den)

\* getPresignedPlan: the payload's files, contentType defaulted by the client
PayloadFiles(source) ==
    [i \in 1..Len(source) |->
        [relPath |-> source[i].fullPath, contentType |-> "application/octet-stream"]]

\* the items of the server's 200 response to that payload
PlanItems(sid, source) ==
    [i \in 1..Len(source) |-> ItemFor(ChooseSid(sid, sid), PayloadFiles(source)[i])]

\* source.find((x) => x.fullPath === relPath): the index of the first match, 0 if none
FindMatch(source, relPath) ==
    IF \E i \in 1..Len(source) : source[i].fullPath = relPath
    THEN CHOOSE i \in 1..Len(source) :
            /\ source[i].fullPath = relPath
            /\ \A j \in 1..(i - 1) : source[j].fullPath # relPath
    ELSE 0

NextPutStopping(source, items, from) ==
    IF from <= Len(items) /\ FindMatch(source, items[from].relPath) # 0 THEN from ELSE 0
\* the for loop from index `from` on, `continue` over the items without a match:
\* the index of the next item that is PUT, 0 when the loop ends
NextPut(source, items, from) ==
    IF \E j \in from..Len(items) : FindMatch(source, items[j].relPath) # 0
    THEN CHOOSE j \in from..Len(items) :
            /\ FindMatch(source, items[j].relPath) # 0
            /\ \A k \in from..(j - 1) : FindMatch(source, items[k].relPath) = 0
    ELSE 0

RemoveAt(seq, i) == SubSeq(seq, 1, i - 1) \o SubSeq(seq, i + 1, Len(seq))

\* the calls on record once call b has ended in the state `last`
Finished(b, last) ==
    IF keepLog THEN [batches EXCEPT ![b] = last] ELSE RemoveAt(batches, b)

NewBatch(picked) ==
    [pc |-> "traverse", source |-> picked, items |-> <<>>, cur |-> 0, done |-> 0,
     puts |-> <<>>, err |-> <<>>]

\* the PUT the loop issues for item j: fetch(item.uploadUrl, { body: match.file })
PutOf(b, items, j) ==
    [item |-> j, key |-> items[j].uploadUrl.key,
     file |-> FindMatch(batches[b].source, items[j].relPath)]

\* onDrop up to `await fromDataTransfer`: the traversal of the dropped entries starts
DropStart(picked, cap) ==
    /\ started /\ step = "upload"
    /\ Len(batches) < cap
    /\ batches' = Append(batches, NewBatch(picked))
    /\ UNCHANGED <<step, product, sessionId, files, uploading, uploadPct,
                   uploadedItems, keepLog, formVars, notApp>>

\* onDrop after the await: if (picked.length) setFiles(picked); uploadToS3(picked)
\* up to `await getPresignedPlan`
DropDone(b) ==
    /\ b \in DOMAIN batches /\ batches[b].pc = "traverse"
    /\ IF batches[b].source = <<>>
       THEN /\ batches' = Finished(b, [batches[b] EXCEPT !.pc = "empty"])
            /\ UNCHANGED <<files, uploading, uploadPct>>
       ELSE /\ files' = batches[b].source
            /\ uploading' = TRUE
            /\ uploadPct' = 0
            /\ batches' = [batches EXCEPT ![b].pc = "plan"]
    /\ UNCHANGED <<step, product, sessionId, uploadedItems, keepLog, formVars, notApp>>

\* the loop runs on from index `from` of the plan `items` with `done` items counted:
\* either the next PUT is issued, or the loop is over and the plan is recorded
LoopFrom(b, items, from, done) ==
    LET j == NextPut(batches[b].source, items, from)
    IN  IF j # 0
        THEN /\ batches' = [batches EXCEPT ![b].pc = "put", ![b].items = items,
                               ![b].cur = j, ![b].done = done,
                               ![b].puts = IF keepLog THEN Append(@, PutOf(b, items, j))
                                           ELSE @]
             /\ UNCHANGED <<uploadedItems, uploading>>
        ELSE /\ batches' = Finished(b, [batches[b] EXCEPT !.pc = "done", !.items = items,
                                                          !.cur = 0, !.done = done])
             /\ uploadedItems' = [isNull |-> FALSE, items |-> items]
             /\ uploading' = FALSE

\* getPresignedPlan resolves with the server's plan; the loop runs to its first PUT
PlanOk(b) ==
    /\ b \in DOMAIN batches /\ batches[b].pc = "plan"
    /\ LoopFrom(b, PlanItems(sessionId, batches[b].source), 1, 0)
    /\ UNCHANGED <<step, product, sessionId, files, uploadPct, keepLog, formVars, notApp>>

AbortResettingProgress(b, named) ==
    /\ batches' = Finished(b, [batches[b] EXCEPT !.pc = "failed", !.err = named])
    /\ uploadedItems' = NullItems
    /\ uploading' = FALSE
    /\ uploadPct' = 0
    /\ UNCHANGED <<step, product, sessionId, files, keepLog, formVars, notApp>>
\* catch (e) { setUploadedItems(null) } finally { setUploading(false) }
Abort(b, named) ==
    /\ batches' = Finished(b, [batches[b] EXCEPT !.pc = "failed", !.err = named])
    /\ uploadedItems' = NullItems
    /\ uploading' = FALSE
    /\ UNCHANGED <<step, product, sessionId, files, uploadPct, keepLog, formVars, notApp>>

\* getPresignedPlan throws: the request failed or the response was not ok
PlanFail(b) ==
    /\ b \in DOMAIN batches /\ batches[b].pc = "plan"
    /\ Abort(b, <<>>)

\* the PUT of the current item answers 2xx: done++; setUploadPct(...); the loop goes on
PutOk(b) ==
    /\ b \in DOMAIN batches /\ batches[b].pc = "put"
    /\ uploadPct' = RoundPct(batches[b].done + 1, Len(batches[b].items))
    /\ LoopFrom(b, batches[b].items, batches[b].cur + 1, batches[b].done + 1)
    /\ UNCHANGED <<step, product, sessionId, files, keepLog, formVars, notApp>>

UploadFailedText == <<"u","p","l","o","a","d"," ","f","a","i","l","e","d",":"," ">>

\* the PUT answers another status: throw new Error(`upload failed: ${item.relPath}`)
PutRejected(b) ==
    /\ b \in DOMAIN batches /\ batches[b].pc = "put"
    /\ Abort(b, UploadFailedText \o batches[b].items[batches[b].cur].relPath)

\* fetch itself rejects (no response): the catch block, with fetch's own error
PutNoResponse(b) ==
    /\ b \in DOMAIN batches /\ batches[b].pc = "put"
    /\ Abort(b, <<>>)

-----------------------------------------------------------------------------
(* Numbers: the JavaScript number values the endowment code can produce *)

NaN      == [k |-> "nan", n |-> 0, d |-> 1]
Infinity == [k |-> "inf", n |-> 1, d |-> 1]
NegInfinity == [k |-> "inf", n |-> -1, d |-> 1]
Fin(n)   == [k |-> "fin", n |-> n, d |-> 1]

RECURSIVE Gcd(_, _)
Gcd(a, b) == IF b = 0 THEN a ELSE Gcd(b, a % b)
Abs(n) == IF n < 0 THEN -n ELSE n

\* a / b for b finite and positive: exact, as a reduced fraction
NumDiv(a, b) ==
    IF a.k # "fin" THEN a
    ELSE LET num == a.n * b.d
             den == a.d * b.n
             g   == Gcd(Abs(num), den)
         IN  [k |-> "fin", n |-> num \div g, d |-> den \div g]

IsNaN(x) == x.k = "nan"
\* x < 0 and x > 0 (false for NaN)
IsNegative(x) == x.k # "nan" /\ x.n < 0
IsPositive(x) == x.k # "nan" /\ x.n > 0
\* Number.isFinite(x)
IsFinite(x) == x.k = "fin"

Digits == <<"0","1","2","3","4","5","6","7","8","9">>
IsDigit(c) == \E i \in 1..10 : Digits[i] = c
DigitValue(c) == (CHOOSE i \in 1..10 : Digits[i] = c) - 1

\* String.prototype.trim(): white space off both ends
RECURSIVE TrimLeft(_)
TrimLeft(s) == IF s # <<>> /\ Head(s) = " " THEN TrimLeft(Tail(s)) ELSE s
RECURSIVE TrimRight(_)
TrimRight(s) ==
    IF s # <<>> /\ s[Len(s)] = " " THEN TrimRight(SubSeq(s, 1, Len(s) - 1)) ELSE s
Trim(s) == TrimRight(TrimLeft(s))

\* the value of the longest prefix of digits of s, acc being the value so far;
\* <<value, number of digits read>>
RECURSIVE ReadDigits(_, _, _)
ReadDigits(s, acc, count) ==
    IF s # <<>> /\ IsDigit(Head(s))
    THEN ReadDigits(Tail(s), 10 * acc + DigitValue(Head(s)), count + 1)
    ELSE <<acc, count>>

InfinityText == <<"I","n","f","i","n","i","t","y">>

\* parseFloat(s): leading white space skipped, an optional sign, then "Infinity" or
\* the longest decimal prefix; anything after it is ignored; NaN when there is no
\* such prefix.  (Fraction and exponent parts are not read: no text drawn has one.)
ParseFloat(s) ==
    LET t    == TrimLeft(s)
        neg  == t # <<>> /\ Head(t) = "-"
        body == IF t # <<>> /\ Head(t) \in {"-", "+"} THEN Tail(t) ELSE t
        r    == ReadDigits(body, 0, 0)
    IN  IF IsPrefix(InfinityText, body) THEN (IF neg THEN NegInfinity ELSE Infinity)
        ELSE IF r[2] = 0 THEN NaN
        ELSE Fin(IF neg THEN -r[1] ELSE r[1])

-----------------------------------------------------------------------------
(* The build flow of the App component *)

StepRank(s) ==
    CASE s = "selectProduct" -> 0
      [] s = "upload"        -> 1
      [] s = "pricing"       -> 2
      [] s = "manifest"      -> 3
      [] s = "minting"       -> 4
      [] s = "vault"         -> 5

\* the texts the user types; the two type="number" fields hold the empty text or
\* a number's text
VaultNames     == {<<" ">>, <<"v">>}
ManifestTexts  == {<<"m">>}
EndowmentTexts == {<<"1","0","0">>, <<"-","5">>}
RateTexts      == {<<>>, <<"2","5","0","0">>}
\* the session id drawn at mount in the behaviours of the whole flow
FlowSid == CHOOSE id \in ClientSids : TRUE

\* what the file picker or a drop may hold in the flow's behaviours
FlowPicks == {<<FileA>>}
\* the product card and the visibility radio clicked in the flow's behaviours
FlowProducts     == {"Permanence"}
FlowVisibilities == {"PUBLIC"}

\* <input value={vaultName} onChange={(e) => setVaultName(e.target.value)} />
SetVaultName(v) ==
    /\ started /\ step = "upload"
    /\ vaultName' = v
    /\ UNCHANGED <<step, product, sessionId, upVars, started, escrowYears,
                   acceptedPrice, manifest, visibility, endowmentUsd, endowmentError,
                   demoEthPrice, lockedEndowment, archiveHash, tokenData,
                   showTokenModal, hashing, mints, notApp>>

\* onFilePick: if (e.target.files.length) setFiles(fromInputFileList(...))
onFilePick(picked) ==
    /\ started /\ step = "upload"
    /\ picked # <<>>
    /\ files' = picked
    /\ UNCHANGED <<step, product, sessionId, uploading, uploadPct, uploadedItems,
                   batches, keepLog, formVars, notApp>>

\* "Continue to Pricing": disabled={!files.length || !vaultName.trim()}
ContinueToPricing ==
    /\ started /\ step = "upload"
    /\ files # <<>> /\ Trim(vaultName) # <<>>
    /\ step' = "pricing"
    /\ UNCHANGED <<product, sessionId, upVars, formVars, notApp>>

\* resetFlow, behind "Reset" (upload step) and "Build Another Vault" (vault step)
resetFlow ==
    /\ started /\ step \in {"upload", "vault"}
    /\ product' = "null"
    /\ files' = <<>>
    /\ vaultName' = <<>>
    /\ acceptedPrice' = FALSE
    /\ manifest' = <<>>
    /\ visibility' = "null"
    /\ step' = "selectProduct"
    /\ escrowYears' = 3
    /\ showTokenModal' = FALSE
    /\ tokenData' = NullToken
    /\ endowmentUsd' = <<>>
    /\ endowmentError' = FALSE
    /\ lockedEndowment' = NullLock
    /\ started' = TRUE
    /\ UNCHANGED <<sessionId, uploading, uploadPct, uploadedItems, batches, keepLog,
                   demoEthPrice, archiveHash, hashing, mints, notApp>>

\* the pricing panel is rendered when step === "pricing" && product && price
PricingShown == started /\ step = "pricing" /\ product # "null"

\* the accept checkbox
SetAcceptedPrice(b) ==
    /\ PricingShown
    /\ acceptedPrice' = b
    /\ UNCHANGED <<step, product, sessionId, upVars, started, escrowYears, vaultName,
                   manifest, visibility, endowmentUsd, endowmentError,
                   demoEthPrice, lockedEndowment, archiveHash, tokenData,
                   showTokenModal, hashing, mints, notApp>>

\* the USD field: setEndowmentUsd(e.target.value); setEndowmentError(null)
SetEndowmentUsd(t) ==
    /\ PricingShown
    /\ endowmentUsd' = t
    /\ endowmentError' = FALSE
    /\ UNCHANGED <<step, product, sessionId, upVars, started, escrowYears, vaultName,
                   acceptedPrice, manifest, visibility,
                   demoEthPrice, lockedEndowment, archiveHash, tokenData,
                   showTokenModal, hashing, mints, notApp>>

\* parseFloat(e.target.value) || 0
RateOf(t) == IF IsNaN(ParseFloat(t)) \/ ParseFloat(t) = Fin(0) THEN Fin(0) ELSE ParseFloat(t)

\* usd / usdPerEth with usdPerEth = demoEthPrice && demoEthPrice > 0 ? demoEthPrice : 1
LockOf(usd, rate) ==
    LET usdPerEth == IF IsPositive(rate) THEN rate ELSE Fin(1)
    IN  [isNull |-> FALSE, usd |-> usd, eth |-> NumDiv(usd, usdPerEth),
         usdPerEth |-> usdPerEth]

\* the demo ETH price field: setDemoEthPrice(parseFloat(e.target.value) || 0)
SetDemoEthPrice(t) ==
    /\ PricingShown
    /\ demoEthPrice' = RateOf(t)
    /\ UNCHANGED <<step, product, sessionId, upVars, started, escrowYears, vaultName,
                   acceptedPrice, manifest, visibility, endowmentUsd, endowmentError,
                   lockedEndowment, archiveHash, tokenData,
                   showTokenModal, hashing, mints, notApp>>

\* "Back" on the pricing step: setStep("upload")
BackToUpload ==
    /\ PricingShown
    /\ step' = "upload"
    /\ UNCHANGED <<product, sessionId, upVars, formVars, notApp>>

\* proceedAfterPricing up to `await hashFilesSHA256(files)`; without files there is
\* no await and the call runs to its end.  The button is disabled unless the price
\* is accepted and the name is not blank, and the function returns at once then.
proceedAfterPricing ==
    /\ PricingShown
    /\ acceptedPrice /\ Trim(vaultName) # <<>>
    /\ LET trimmed == Trim(endowmentUsd)
           num     == ParseFloat(trimmed)
       IN  IF trimmed # <<>> /\ (IsNaN(num) \/ IsNegative(num))
           THEN /\ endowmentError' = TRUE
                /\ UNCHANGED <<lockedEndowment, hashing, archiveHash, step>>
           ELSE /\ lockedEndowment' = IF trimmed # <<>> THEN LockOf(num, demoEthPrice)
                                      ELSE NullLock
                /\ endowmentError' = FALSE
                /\ IF files # <<>>
                   THEN /\ Len(hashing) < MaxHashing
                        /\ hashing' = Append(hashing, files)
                        /\ UNCHANGED <<archiveHash, step>>
                   ELSE /\ archiveHash' = EmptyHash
                        /\ step' = "manifest"
                        /\ UNCHANGED hashing
    /\ UNCHANGED <<product, sessionId, upVars, started, escrowYears, vaultName,
                   acceptedPrice, manifest, visibility, endowmentUsd,
                   demoEthPrice, tokenData, showTokenModal, mints, notApp>>

\* the hash of call i is there: setArchiveHash(hash); setStep("manifest")
HashDone(i) ==
    /\ i \in DOMAIN hashing
    /\ archiveHash' = hashFilesSHA256(hashing[i])
    /\ step' = "manifest"
    /\ hashing' = RemoveAt(hashing, i)
    /\ UNCHANGED <<product, sessionId, upVars, started, escrowYears, vaultName,
                   acceptedPrice, manifest, visibility, endowmentUsd, endowmentError,
                   demoEthPrice, lockedEndowment, tokenData, showTokenModal, mints,
                   notApp>>

\* the manifest textarea
SetManifest(m) ==
    /\ started /\ step = "manifest"
    /\ manifest' = m
    /\ UNCHANGED <<step, product, sessionId, upVars, started, escrowYears, vaultName,
                   acceptedPrice, visibility, endowmentUsd, endowmentError,
                   demoEthPrice, lockedEndowment, archiveHash, tokenData,
                   showTokenModal, hashing, mints, notApp>>

\* the visibility radio buttons
SetVisibility(v) ==
    /\ started /\ step = "manifest"
    /\ visibility' = v
    /\ UNCHANGED <<step, product, sessionId, upVars, started, escrowYears, vaultName,
                   acceptedPrice, manifest, endowmentUsd, endowmentError,
                   demoEthPrice, lockedEndowment, archiveHash, tokenData,
                   showTokenModal, hashing, mints, notApp>>

\* "Back" on the manifest step: setStep("pricing")
BackToPricing ==
    /\ started /\ step = "manifest"
    /\ step' = "pricing"
    /\ UNCHANGED <<product, sessionId, upVars, formVars, notApp>>

\* startMint up to the first sleep: the guard, setStep("minting"); the values the
\* token is built from are those of the render the click happened in
startMint ==
    /\ started /\ step = "manifest"
    /\ visibility # "null" /\ Trim(manifest) # <<>>
    /\ Len(mints) < MaxMints
    /\ step' = "minting"
    /\ mints' = Append(mints, [pc |-> "sleep1", name |-> vaultName, hash |-> archiveHash])
    /\ UNCHANGED <<product, sessionId, upVars, started, escrowYears, vaultName,
                   acceptedPrice, manifest, visibility, endowmentUsd, endowmentError,
                   demoEthPrice, lockedEndowment, archiveHash, tokenData,
                   showTokenModal, hashing, notApp>>

\* after sleep(1200): setTokenData(...), then the second sleep
MintTokenReady(i) ==
    /\ i \in DOMAIN mints /\ mints[i].pc = "sleep1"
    /\ tokenData' = [isNull |-> FALSE, name |-> mints[i].name, hash |-> mints[i].hash]
    /\ mints' = [mints EXCEPT ![i].pc = "sleep2"]
    /\ UNCHANGED <<step, product, sessionId, upVars, started, escrowYears, vaultName,
                   acceptedPrice, manifest, visibility, endowmentUsd, endowmentError,
                   demoEthPrice, lockedEndowment, archiveHash,
                   showTokenModal, hashing, notApp>>

\* after sleep(800): setStep("vault"); setShowTokenModal(true)
MintDone(i) ==
    /\ i \in DOMAIN mints /\ mints[i].pc = "sleep2"
    /\ step' = "vault"
    /\ showTokenModal' = TRUE
    /\ mints' = RemoveAt(mints, i)
    /\ UNCHANGED <<product, sessionId, upVars, started, escrowYears, vaultName,
                   acceptedPrice, manifest, visibility, endowmentUsd, endowmentError,
                   demoEthPrice, lockedEndowment, archiveHash, tokenData,
                   hashing, notApp>>

\* the modal's close buttons: setShowTokenModal(false)
CloseTokenModal ==
    /\ showTokenModal /\ ~tokenData.isNull
    /\ showTokenModal' = FALSE
    /\ UNCHANGED <<step, product, sessionId, upVars, started, escrowYears, vaultName,
                   acceptedPrice, manifest, visibility, endowmentUsd, endowmentError,
                   demoEthPrice, lockedEndowment, archiveHash, tokenData,
                   hashing, mints, notApp>>

\* "View FAWV Vault Token" on the vault step: setShowTokenModal(true)
ViewToken ==
    /\ started /\ step = "vault" /\ ~showTokenModal
    /\ showTokenModal' = TRUE
    /\ UNCHANGED <<step, product, sessionId, upVars, started, escrowYears, vaultName,
                   acceptedPrice, manifest, visibility, endowmentUsd, endowmentError,
                   demoEthPrice, lockedEndowment, archiveHash, tokenData,
                   hashing, mints, notApp>>

XferNext ==
    \/ StartBuild
    \/ \E p \in Products : PickProduct(p)
    \/ \E picked \in XferPicks : DropStart(picked, MaxBatches)
    \/ \E b \in 1..MaxBatches : DropDone(b)
    \/ \E b \in 1..MaxBatches : PlanOk(b)
    \/ \E b \in 1..MaxBatches : PlanFail(b)
    \/ \E b \in 1..MaxBatches : PutOk(b)
    \/ \E b \in 1..MaxBatches : PutRejected(b)
    \/ \E b \in 1..MaxBatches : PutNoResponse(b)
    \/ resetFlow

FlowNext ==
    \/ StartBuild
    \/ \E p \in FlowProducts : PickProduct(p)
    \/ \E v \in VaultNames : SetVaultName(v)
    \/ \E picked \in FlowPicks : onFilePick(picked)
    \/ ContinueToPricing
    \/ resetFlow
    \/ \E b \in BOOLEAN : SetAcceptedPrice(b)
    \/ \E t \in EndowmentTexts : SetEndowmentUsd(t)
    \/ \E t \in RateTexts : SetDemoEthPrice(t)
    \/ BackToUpload
    \/ proceedAfterPricing
    \/ \E i \in 1..MaxHashing : HashDone(i)
    \/ \E m \in ManifestTexts : SetManifest(m)
    \/ \E v \in FlowVisibilities : SetVisibility(v)
    \/ BackToPricing
    \/ startMint
    \/ \E i \in 1..MaxMints : MintTokenReady(i)
    \/ \E i \in 1..MaxMints : MintDone(i)
    \/ CloseTokenModal
    \/ ViewToken

-----------------------------------------------------------------------------
(* POST /commit (api routes): manifest assembly, storage and minting *)

\* the object keys a request may name, each holding the uploaded file beforehand
KeyVaultFile     == <<"v","/","f">>
KeyBare          == <<"f">>
ManifestJson     == <<"m","a","n","i","f","e","s","t",".","j","s","o","n">>
KeyVaultManifest == <<"v","/">> \o ManifestJson
CommitKeys       == {KeyVaultFile, KeyBare, KeyVaultManifest}

\* values of the endowmentUsd member of a JSON body
Undefined == [t |-> "undefined", v |-> NaN, s |-> <<>>]
JsNum(v)  == [t |-> "number", v |-> v, s |-> <<>>]
JsStr(s)  == [t |-> "string", v |-> NaN, s |-> s]

CommitBody(key, bytes, usd) ==
    [key |-> key, filename |-> <<"f">>, bytes |-> bytes, sha256 |-> <<"A","b">>,
     endowmentUsd |-> usd]

CommitBodies ==
    {CommitBody(KeyVaultFile, 1, JsNum(Fin(100))),
     CommitBody(KeyVaultFile, 1, JsNum(Fin(-5))),
     CommitBody(KeyVaultFile, 1, JsStr(<<"a","b">>)),
     CommitBody(KeyVaultFile, 1, Undefined),
     CommitBody(KeyVaultFile, 0, Undefined),
     CommitBody(KeyBare, 1, Undefined),
     CommitBody(KeyVaultManifest, 1, Undefined)}

\* Number(x) of a body member, after the destructuring default `endowmentUsd = 0`
NumberOf(x) ==
    CASE x.t = "undefined" -> Fin(0)
      [] x.t = "number"    -> x.v
      [] x.t = "string"    ->
            LET t    == Trim(x.s)
                neg  == t # <<>> /\ Head(t) = "-"
                body == IF t # <<>> /\ Head(t) \in {"-", "+"} THEN Tail(t) ELSE t
                r    == ReadDigits(body, 0, 0)
            IN  IF t = <<>> THEN Fin(0)
                ELSE IF r[2] = 0 \/ r[2] # Len(body) THEN NaN
                ELSE Fin(IF neg THEN -r[1] ELSE r[1])

\* Number(x.toFixed(6)): the nearest multiple of 10^-6, the larger one on a tie
ToFixed6(x) ==
    IF x.k # "fin" THEN x
    ELSE LET q == (2 * x.n * 1000000 + x.d) \div (2 * x.d)
         IN  NumDiv(Fin(q), Fin(1000000))

\* Number(process.env.USD_PER_ETH || 2500), the variable not being set
ServerUsdPerEth == Fin(2500)

HexUpper == <<"A","B","C","D","E","F">>
HexLower == <<"a","b","c","d","e","f">>
LowerChar(c) ==
    IF \E i \in 1..6 : HexUpper[i] = c
    THEN HexLower[CHOOSE i \in 1..6 : HexUpper[i] = c] ELSE c
\* String(sha256).toLowerCase()
ToLowerCase(s) == [i \in 1..Len(s) |-> LowerChar(s[i])]

\* key.replace(/\/[^/]+$/, '/manifest.json')
ManifestKeyOf(key) ==
    LET slashes == {i \in 1..Len(key) : key[i] = "/"}
        last    == CHOOSE i \in slashes : \A j \in slashes : j <= i
    IN  IF slashes # {} /\ last < Len(key)
        THEN SubSeq(key, 1, last) \o ManifestJson
        ELSE key

NoTokenRef == [tokenId |-> -1, manifestRef |-> <<>>]
FileObject == [kind |-> "file"]

\* the manifest object the handler builds (the members no later step reads or
\* changes, name, version, plan, ops and timestamps, are left out)
ManifestOf(body) ==
    LET usd == NumberOf(body.endowmentUsd)
    IN  [kind      |-> "manifest",
         file      |-> [filename |-> body.filename, bytes |-> body.bytes,
                        sha256 |-> ToLowerCase(body.sha256)],
         endowment |-> [usd |-> usd, eth |-> ToFixed6(NumDiv(usd, ServerUsdPerEth)),
                        usdPerEth |-> ServerUsdPerEth],
         storage   |-> body.key,
         token     |-> NoTokenRef]

NoManifest   == [kind |-> "none"]
NoCommitResp == [status |-> 0, error |-> "", tokenId |-> -1, manifestKey |-> <<>>,
                 manifest |-> NoManifest]

\* if (!key || !filename || !bytes || !sha256)
MissingFields(body) ==
    body.key = <<>> \/ body.filename = <<>> \/ body.bytes = 0 \/ body.sha256 = <<>>

\* s3.send(new PutObjectCommand({Key: key, Body: obj})) having succeeded
PutObject(bucket, key, obj) ==
    [k \in DOMAIN bucket \cup {key} |-> IF k = key THEN obj ELSE bucket[k]]

CommitInit ==
    /\ cReqs = <<>>
    /\ store = [k \in CommitKeys |-> FileObject]
    /\ chainNextId = 1
    /\ chainEnv \in BOOLEAN

CommitIdle ==
    /\ cReqs = <<>>
    /\ store = <<>>
    /\ chainNextId = 0
    /\ chainEnv = FALSE

\* a request arrives: the handler up to the first `await s3.send(...)`
Commit(body) ==
    /\ Len(cReqs) < MaxCommits
    /\ cReqs' = Append(cReqs,
          IF MissingFields(body)
          THEN [pc |-> "done", body |-> body, manifest |-> NoManifest,
                manifestKey |-> <<>>, minted |-> -1, failedAt |-> "",
                resp |-> [NoCommitResp EXCEPT !.status = 400,
                                              !.error = "missing fields"]]
          ELSE [pc |-> "put1", body |-> body, manifest |-> ManifestOf(body),
                manifestKey |-> ManifestKeyOf(body.key), minted |-> -1,
                failedAt |-> "",
                resp |-> NoCommitResp])
    /\ UNCHANGED <<store, chainNextId, chainEnv, notCommit>>

\* the first PutObject is done; providerWalletAndContract() throws without the
\* chain environment, else contract.mintVault(to, manifestRef) is sent
PutManifest(i) ==
    /\ i \in DOMAIN cReqs /\ cReqs[i].pc = "put1"
    /\ store' = PutObject(store, cReqs[i].manifestKey, cReqs[i].manifest)
    /\ cReqs' = [cReqs EXCEPT ![i].pc = IF chainEnv THEN "mint" ELSE "failed",
                               ![i].failedAt = IF chainEnv THEN "" ELSE "env"]
    /\ UNCHANGED <<chainNextId, chainEnv, notCommit>>

\* mintVault returned the transaction: await tx.wait()
MintSent(i) ==
    /\ i \in DOMAIN cReqs /\ cReqs[i].pc = "mint"
    /\ cReqs' = [cReqs EXCEPT ![i].pc = "wait"]
    /\ UNCHANGED <<store, chainNextId, chainEnv, notCommit>>

\* the transaction is mined, the contract giving the token its next id, and
\* tx.wait() returns the receipt: await contract.nextId()
MintMined(i) ==
    /\ i \in DOMAIN cReqs /\ cReqs[i].pc = "wait"
    /\ chainNextId' = chainNextId + 1
    /\ cReqs' = [cReqs EXCEPT ![i].pc = "nextId", ![i].minted = chainNextId]
    /\ UNCHANGED <<store, chainEnv, notCommit>>

\* nextId() answered: tokenId = Number(nextId) - 1; manifest.token = {...};
\* the second PutObject is sent
ReadNextId(i) ==
    /\ i \in DOMAIN cReqs /\ cReqs[i].pc = "nextId"
    /\ cReqs' = [cReqs EXCEPT
          ![i].pc = "put2",
          ![i].manifest.token = [tokenId |-> chainNextId - 1,
                                 manifestRef |-> cReqs[i].manifestKey]]
    /\ UNCHANGED <<store, chainNextId, chainEnv, notCommit>>

\* the second PutObject is done: res.json({tokenId, txHash, manifestKey, manifest, s3})
PutManifestAgain(i) ==
    /\ i \in DOMAIN cReqs /\ cReqs[i].pc = "put2"
    /\ store' = PutObject(store, cReqs[i].manifestKey, cReqs[i].manifest)
    /\ cReqs' = [cReqs EXCEPT
          ![i].pc = "done",
          ![i].resp = [NoCommitResp EXCEPT
                          !.status = 200,
                          !.tokenId = cReqs[i].manifest.token.tokenId,
                          !.manifestKey = cReqs[i].manifestKey,
                          !.manifest = cReqs[i].manifest]]
    /\ UNCHANGED <<chainNextId, chainEnv, notCommit>>

\* an awaited call rejects (storage, mintVault, tx.wait or nextId): the handler has
\* no try/catch, so it ends there, without a response and without undoing anything
AwaitRejectsDeleting(i) ==
    /\ i \in DOMAIN cReqs /\ cReqs[i].pc \in {"put1", "mint", "wait", "nextId", "put2"}
    /\ cReqs' = [cReqs EXCEPT ![i].pc = "failed", ![i].failedAt = cReqs[i].pc]
    /\ store' = [k \in DOMAIN store \ {cReqs[i].manifestKey} |-> store[k]]
    /\ UNCHANGED <<chainNextId, chainEnv, notCommit>>
AwaitRejects(i) ==
    /\ i \in DOMAIN cReqs /\ cReqs[i].pc \in {"put1", "mint", "wait", "nextId", "put2"}
    /\ cReqs' = [cReqs EXCEPT ![i].pc = "failed", ![i].failedAt = cReqs[i].pc]
    /\ UNCHANGED <<store, chainNextId, chainEnv, notCommit>>

CommitNext ==
    \/ \E body \in CommitBodies : Commit(body)
    \/ \E i \in 1..MaxCommits : PutManifest(i)
    \/ \E i \in 1..MaxCommits : MintSent(i)
    \/ \E i \in 1..MaxCommits : MintMined(i)
    \/ \E i \in 1..MaxCommits : ReadNextId(i)
    \/ \E i \in 1..MaxCommits : PutManifestAgain(i)
    \/ \E i \in 1..MaxCommits : AwaitRejects(i)

-----------------------------------------------------------------------------
(* calculatePrice (web App.tsx); money is counted in cents *)

GiB == 1073741824

\* the demo rates of PRICING, in cents per GB
TokenizationPerGB == 10
PermanenceStoragePerGB == 60
PlusStoragePerGBBase == 50
PlusPerYearAdderPerGB == 20
HeirloomStoragePerGB == 120

\* Math.max(1, Math.ceil(bytes / 1024 ** 3))
ceilGBFloor(bytes) ==
    LET whole == bytes \div GiB
    IN  IF whole > 1 THEN whole ELSE 1
ceilGB(bytes) ==
    LET ceil == IF bytes % GiB = 0 THEN bytes \div GiB ELSE bytes \div GiB + 1
    IN  IF ceil > 1 THEN ceil ELSE 1

calculatePrice(prod, totalBytes, years) ==
    LET gb           == ceilGB(totalBytes)
        tokenization == gb * TokenizationPerGB
        storage      ==
            CASE prod = "Permanence"  -> gb * PermanenceStoragePerGB
              [] prod = "Permanence+" ->
                    gb * (PlusStoragePerGBBase + years * PlusPerYearAdderPerGB)
              [] OTHER                -> gb * HeirloomStoragePerGB
    IN  [gb |-> gb, tokenization |-> tokenization, storage |-> storage,
         subtotal |-> tokenization + storage]

NoQuote == [gb |-> 0, tokenization |-> 0, storage |-> 0, subtotal |-> 0]

\* total sizes at the start, around one GiB and around twice that
PriceBytes ==
    (0..MaxByteOffset) \cup ((GiB - MaxByteOffset)..(GiB + MaxByteOffset))
        \cup {GiB + (GiB - 1) - o : o \in 0..MaxByteOffset}
EscrowYearsOptions == {3, 5, 10}

PriceInit ==
    /\ pBytes \in PriceBytes
    /\ pProduct \in Products
    /\ pYears \in EscrowYearsOptions
    /\ pQuote = NoQuote

PriceIdle == pBytes = 0 /\ pProduct = "null" /\ pYears = 3 /\ pQuote = NoQuote

\* useMemo(() => calculatePrice(product, totalBytes, escrowYears))
Quote ==
    /\ pQuote = NoQuote
    /\ pQuote' = calculatePrice(pProduct, pBytes, pYears)
    /\ UNCHANGED <<pBytes, pProduct, pYears, notPrice>>

PriceNext == Quote

-----------------------------------------------------------------------------
(* Chunked hashing (UploadModule) and the whole-vault hasher's reads (App) *)

\* const chunkSize = 8 * 1024 * 1024
chunkSize == 8388608

Min(a, b) == IF a < b THEN a ELSE b

\* file sizes: up to MaxChunks chunks, on and around the chunk boundaries
FileSizes ==
    {k * chunkSize + r : k \in 0..(MaxChunks - 1), r \in {0, 1, chunkSize - 1}}
        \cup {MaxChunks * chunkSize}

\* the lists hashFilesSHA256 is given, each file by the lengths of its path and bytes
VaultFiles == {[pathLen |-> 1, size |-> z] : z \in {0, 1, chunkSize, chunkSize + 1}}
VaultLists == SeqsUpTo(VaultFiles, MaxVaultFiles)

ChunkIdle ==
    /\ cPc = "idle" /\ cTotal = 0 /\ cOffset = 0 /\ cOnProgress = FALSE
    /\ cLog = <<>> /\ cHeld = 0 /\ cList = <<>> /\ cRead = 0

Ev(e, from, to) == [e |-> e, from |-> from, to |-> to]

\* while (offset < total): slice the next chunk and await its arrayBuffer();
\* after the loop, hasher.digest("hex")
LoopTest(offset, total, log) ==
    IF offset < total
    THEN cPc' = "read" /\ cLog' = log
    ELSE cPc' = "done" /\ cLog' = Append(log, Ev("digest", 0, offset))

\* sha256Hex(file, onProgress): createSHA256, offset = 0, first loop test
sha256HexStart(total, onProgress) ==
    /\ cPc = "idle"
    /\ cTotal' = total
    /\ cOnProgress' = onProgress
    /\ cOffset' = 0
    /\ LoopTest(0, total, <<>>)
    /\ UNCHANGED <<cHeld, cList, cRead, notChunk>>

\* the chunk's arrayBuffer() arrives: hasher.update, offset += buf.byteLength,
\* onProgress?.(offset, total), then the wait for the next animation frame
ChunkReadNoYield ==
    /\ cPc = "read"
    /\ LET to  == Min(cOffset + chunkSize, cTotal)
           log == Append(cLog, Ev("update", cOffset, to)) \o
                  (IF cOnProgress THEN <<Ev("progress", to, cTotal)>> ELSE <<>>)
       IN  /\ cHeld' = to - cOffset
           /\ cOffset' = cOffset + (to - cOffset)
           /\ LoopTest(cOffset + (to - cOffset), cTotal, log)
    /\ UNCHANGED <<cTotal, cOnProgress, cList, cRead, notChunk>>

ChunkRead ==
    /\ cPc = "read"
    /\ LET to == Min(cOffset + chunkSize, cTotal)
       IN  /\ cHeld' = to - cOffset
           /\ cOffset' = cOffset + (to - cOffset)
           /\ cLog' = Append(cLog, Ev("update", cOffset, to)) \o
                      (IF cOnProgress THEN <<Ev("progress", to, cTotal)>> ELSE <<>>)
    /\ cPc' = "frame"
    /\ UNCHANGED <<cTotal, cOnProgress, cList, cRead, notChunk>>

\* requestAnimationFrame calls back: the routine resumes with the loop test
FrameYield ==
    /\ cPc = "frame"
    /\ cHeld' = 0
    /\ LoopTest(cOffset, cTotal, Append(cLog, Ev("yield", cOffset, cOffset)))
    /\ UNCHANGED <<cTotal, cOffset, cOnProgress, cList, cRead, notChunk>>

\* hashFilesSHA256(list): sort, then the for loop over the files
hashFilesStart(list) ==
    /\ cPc = "idle"
    /\ cList' = list
    /\ cPc' = IF list = <<>> THEN "blob" ELSE "file"
    /\ UNCHANGED <<cTotal, cOffset, cOnProgress, cLog, cHeld, cRead, notChunk>>

\* blobs.push(item.fullPath, "\n"); blobs.push(await item.file.arrayBuffer()):
\* the whole file is read, and blobs keeps it
ReadWholeFile ==
    /\ cPc = "file"
    /\ cRead' = cRead + 1
    /\ cHeld' = cHeld + cList[cRead + 1].size
    /\ cPc' = IF cRead + 1 = Len(cList) THEN "blob" ELSE "file"
    /\ UNCHANGED <<cTotal, cOffset, cOnProgress, cLog, cList, notChunk>>

RECURSIVE StreamLen(_)
StreamLen(list) ==
    IF list = <<>> THEN 0
    ELSE Head(list).pathLen + 1 + Head(list).size + StreamLen(Tail(list))

\* const ab = await new Blob(blobs).arrayBuffer(); return sha256Hex(ab):
\* one buffer with the whole stream, digested in one call
DigestBlob ==
    /\ cPc = "blob"
    /\ cTotal' = StreamLen(cList)
    /\ cOffset' = StreamLen(cList)
    /\ cHeld' = StreamLen(cList)
    /\ cLog' = <<Ev("update", 0, StreamLen(cList)), Ev("digest", 0, StreamLen(cList))>>
    /\ cPc' = "hashed"
    /\ UNCHANGED <<cOnProgress, cList, cRead, notChunk>>

ChunkNext ==
    \/ \E total \in FileSizes, onProgress \in BOOLEAN : sha256HexStart(total, onProgress)
    \/ ChunkRead
    \/ FrameYield
    \/ \E list \in VaultLists : hashFilesStart(list)
    \/ ReadWholeFile
    \/ DigestBlob

-----------------------------------------------------------------------------
(* The file collector (App): dropped entries and picked file lists *)

\* entries of the drag-and-drop file system: files, directories, and entries
\* that are neither
FileEntry(name)          == [kind |-> "file", name |-> name, children |-> <<>>]
DirEntry(name, children) == [kind |-> "dir", name |-> name, children |-> children]
OtherEntry               == [kind |-> "other", name |-> <<"x">>, children |-> <<>>]
NoEntry                  == [kind |-> "null", name |-> <<>>, children |-> <<>>]

\* the names in one directory are different from each other
DistinctNames(children) ==
    \A i, j \in 1..Len(children) : i # j => children[i].name # children[j].name

LeafEntries == {FileEntry(<<"a">>), FileEntry(<<".", "b">>)}
\* what may lie beside a subdirectory: a file, an empty directory, another entry
SideEntries == LeafEntries \cup {OtherEntry, DirEntry(<<"e">>, <<>>)}
\* directories of up to MaxChildren files, and trees with up to MaxDepth levels
\* of directories above the files
RECURSIVE EntriesOfDepth(_)
EntriesOfDepth(d) ==
    IF d = 0 THEN LeafEntries \cup {OtherEntry}
    ELSE IF d = 1
    THEN EntriesOfDepth(0) \cup
         { DirEntry(n, c) :
             n \in {<<"d">>, <<"e">>},
             c \in {x \in SeqsUpTo(EntriesOfDepth(0), MaxChildren) : DistinctNames(x)} }
    ELSE EntriesOfDepth(d - 1) \cup
         { DirEntry(<<"r">>, c) :
             c \in {x \in {<<e>> : e \in EntriesOfDepth(d - 1)}
                         \cup {<<e, y>> : e \in EntriesOfDepth(d - 1), y \in SideEntries}
                         \cup {<<y, e>> : e \in EntriesOfDepth(d - 1), y \in SideEntries} :
                       DistinctNames(x)} }
Entries == EntriesOfDepth(MaxDepth)

RECURSIVE Flat(_)
Flat(lists) == IF lists = <<>> THEN <<>> ELSE Head(lists) \o Flat(Tail(lists))

DemoFile(file, fullPath) == [file |-> file, fullPath |-> fullPath]

\* all.push(traverseEntry(e, pathPrefix + entry.name + "/"))
ChildPrefixFlat(pathPrefix, entry) == entry.name \o <<"/">>

ChildPrefix(pathPrefix, entry) == pathPrefix \o entry.name \o <<"/">>

\* traverseEntry(entry, pathPrefix): a file resolves to itself under the prefix; a
\* directory reads its entries batch by batch until a batch is empty, pushes the
\* traversal of every entry in the order read, and resolves to
\* (await Promise.all(all)).flat(); anything else resolves to []
RECURSIVE traverseEntry(_, _)
traverseEntry(entry, pathPrefix) ==
    IF entry.kind = "file"
    THEN <<DemoFile(entry.name, pathPrefix \o entry.name)>>
    ELSE IF entry.kind = "dir"
    THEN Flat([i \in 1..Len(entry.children) |->
                  traverseEntry(entry.children[i], ChildPrefix(pathPrefix, entry))])
    ELSE <<>>

\* a DataTransferItem: the entry webkitGetAsEntry returns (NoEntry for none) and
\* the file getAsFile returns (<<>> for null)
DropItems ==
    {[entry |-> e, file |-> <<>>] : e \in {x \in Entries : x.kind = "dir"}}
        \cup {[entry |-> NoEntry, file |-> f] : f \in {<<>>, <<"a">>}}
DropLists == {<<i>> : i \in DropItems} \cup
             {<<i, j>> : i \in DropItems, j \in {[entry |-> NoEntry, file |-> <<"b">>]}}

\* fromDataTransfer(items): the files of the items without an entry, then the
\* traversals of the entries, each in item order
RECURSIVE DirectFiles(_)
DirectFiles(items) ==
    IF items = <<>> THEN <<>>
    ELSE (IF Head(items).entry.kind = "null" /\ Head(items).file # <<>>
          THEN <<DemoFile(Head(items).file, Head(items).file)>> ELSE <<>>)
         \o DirectFiles(Tail(items))
RECURSIVE EntryTasks(_)
EntryTasks(items) ==
    IF items = <<>> THEN <<>>
    ELSE (IF Head(items).entry.kind # "null"
          THEN <<traverseEntry(Head(items).entry, <<>>)>> ELSE <<>>)
         \o EntryTasks(Tail(items))
fromDataTransfer(items) == DirectFiles(items) \o Flat(EntryTasks(items))

\* a File of an <input> list: its name and its webkitRelativePath ("" when the
\* input is not a directory input)
InputFiles ==
    {[name |-> n, webkitRelativePath |-> r] :
        n \in {<<"a">>, <<"b">>}, r \in {<<>>, <<"d", "/", "a">>, <<"d", "/", "e", "/", "b">>}}
InputLists == SeqsUpTo(InputFiles, MaxChildren)

\* const rel = f.webkitRelativePath || f.name; arr.push({ file: f, fullPath: rel })
fromInputFileList(list) ==
    [i \in 1..Len(list) |->
        DemoFile(list[i].name,
                 IF list[i].webkitRelativePath # <<>> THEN list[i].webkitRelativePath
                 ELSE list[i].name)]

TravIdle == tPc = "idle" /\ tKind = "entry" /\ tIn = NoEntry /\ tOut = <<>>

TravInit ==
    /\ tPc = "idle" /\ tOut = <<>>
    /\ \/ tKind = "entry" /\ tIn \in Entries \cup {NoEntry}
       \/ tKind = "items" /\ tIn \in DropLists
       \/ tKind = "input" /\ tIn \in InputLists

TraverseEntry ==
    /\ tPc = "idle" /\ tKind = "entry"
    /\ tOut' = traverseEntry(tIn, <<>>)
    /\ tPc' = "done"
    /\ UNCHANGED <<tKind, tIn, notTrav>>

FromDataTransfer ==
    /\ tPc = "idle" /\ tKind = "items"
    /\ tOut' = fromDataTransfer(tIn)
    /\ tPc' = "done"
    /\ UNCHANGED <<tKind, tIn, notTrav>>

FromInputFileList ==
    /\ tPc = "idle" /\ tKind = "input"
    /\ tOut' = fromInputFileList(tIn)
    /\ tPc' = "done"
    /\ UNCHANGED <<tKind, tIn, notTrav>>

TravNext == TraverseEntry \/ FromDataTransfer \/ FromInputFileList

-----------------------------------------------------------------------------
(* Specifications *)

InitKey    == KeyInit /\ StartIdle /\ HashIdle /\ AppIdle /\ CommitIdle /\ PriceIdle /\ ChunkIdle /\ TravIdle
InitStart  == StartInit /\ KeyIdle /\ HashIdle /\ AppIdle /\ CommitIdle /\ PriceIdle /\ ChunkIdle /\ TravIdle
InitHash   == HashInit /\ KeyIdle /\ StartIdle /\ AppIdle /\ CommitIdle /\ PriceIdle /\ ChunkIdle /\ TravIdle
InitXfer   == AppInit /\ keepLog /\ KeyIdle /\ StartIdle /\ HashIdle /\ CommitIdle /\ PriceIdle /\ ChunkIdle /\ TravIdle
InitFlow   == /\ AppInit /\ ~keepLog /\ sessionId = FlowSid
              /\ KeyIdle /\ StartIdle /\ HashIdle /\ CommitIdle /\ PriceIdle /\ ChunkIdle /\ TravIdle
InitCommit == CommitInit /\ KeyIdle /\ StartIdle /\ HashIdle /\ AppIdle /\ PriceIdle /\ ChunkIdle /\ TravIdle
InitPrice  == PriceInit /\ KeyIdle /\ StartIdle /\ HashIdle /\ AppIdle /\ CommitIdle /\ ChunkIdle /\ TravIdle
InitChunk  == ChunkIdle /\ KeyIdle /\ StartIdle /\ HashIdle /\ AppIdle /\ CommitIdle /\ PriceIdle /\ TravIdle
InitTrav   == TravInit /\ KeyIdle /\ StartIdle /\ HashIdle /\ AppIdle /\ CommitIdle /\ PriceIdle /\ ChunkIdle

SpecKey   == InitKey /\ [][KeyNext]_vars
SpecStart == InitStart /\ [][StartNext]_vars
SpecHash  == InitHash /\ [][HashNext]_vars
SpecXfer  == InitXfer /\ [][XferNext]_vars
SpecFlow  == InitFlow /\ [][FlowNext]_vars
SpecCommit == InitCommit /\ [][CommitNext]_vars
SpecPrice == InitPrice /\ [][PriceNext]_vars
SpecChunk == InitChunk /\ [][ChunkNext]_vars
SpecTrav  == InitTrav /\ [][TravNext]_vars

-----------------------------------------------------------------------------
(* Claims *)

KeyRest == SubSeq(kKey, Len(KeyPrefix(KeySid)) + 1, Len(kKey))

\* C1: every relative path sent to /upload/start yields an objectKey that starts
\* with demo/<sessionId>/ and whose remainder has no '..' segment and no leading
\* '/'.  The code violates it ('a/..' keeps its '..' segment).
C1_KeyStaysInSession ==
    kKey # NoKey =>
        /\ IsPrefix(KeyPrefix(KeySid), kKey)
        /\ ~HasDotDotSegment(KeyRest)
        /\ (KeyRest = <<>> \/ Head(KeyRest) # "/")

\* C4: a request whose files list is missing or empty is answered 400 no_files,
\* no signed URL is requested and no session id is allocated.
C4_NoFilesRejected ==
    (sPc # "idle" /\ (~sBody.hasFiles \/ sBody.files = <<>>)) =>
        /\ sPc = "done"
        /\ sResp.status = 400 /\ sResp.error = "no_files"
        /\ sResp.items = <<>> /\ sResp.sessionId = <<>>
        /\ sSigned = 0 /\ sTasks = <<>> /\ sSid = NoSid

C4_Witness ==
    /\ sPc = "done" /\ sBody.hasFiles /\ sBody.files = <<>>
    /\ sBody.sessionId = <<"s","e","s","s","-","1">>
    /\ sResp.status = 400

\* C5: the response of a start-session call carries either one grant per requested
\* file, in request order, or an error and no grant at all; if the signed URL of
\* any file failed, the caller receives none of the grants issued for the others.
C5_AllOrNothing ==
    sPc = "done" =>
        \/ /\ sResp.status = 200
           /\ \A i \in DOMAIN sTasks : sTasks[i] = "fulfilled"
           /\ Len(sResp.items) = Len(sBody.files)
           /\ \A i \in 1..Len(sBody.files) :
                 /\ sResp.items[i].relPath = safePath(sBody.files[i].relPath)
                 /\ sResp.items[i].objectKey =
                        KeyPrefix(sResp.sessionId) \o safePath(sBody.files[i].relPath)
                 /\ sResp.items[i].uploadUrl.key = sResp.items[i].objectKey
        \/ /\ sResp.status \in {400, 500}
           /\ sResp.items = <<>>

C5_Witness ==
    /\ sPc = "done" /\ sResp.status = 500
    /\ \E i \in DOMAIN sTasks : sTasks[i] = "fulfilled"
    /\ \E i \in DOMAIN sTasks : sTasks[i] = "rejected"

\* the list reordered by the permutation p of its indices
Reordered(list, p) == [i \in 1..Len(list) |-> list[p[i]]]

\* C2: every permutation of a file list, lists with two entries of the same path
\* and different bytes included, hashes to the same digest.  The code violates it:
\* the stable sort keeps equal paths in list order.
C2_OrderIndependent ==
    hDigest # NoDigest =>
        \A p \in Permutations(1..Len(hList)) :
            hashFilesSHA256(Reordered(hList, p)) = hDigest

\* a list in which no two entries have the same path, read as a map path -> bytes
IsFileSet(list) ==
    \A i, j \in 1..Len(list) : list[i].fullPath = list[j].fullPath => i = j
AsSet(list) == {list[i] : i \in 1..Len(list)}

\* C3: two file sets that differ in which path holds which bytes are fed to
\* SHA-256 as different streams, hence have different digests.  The code violates
\* it: {a: "", b: ""} and {a: "b\n"} give the same stream "a\nb\n".
C3_PathAware ==
    (hDigest # NoDigest /\ IsFileSet(hList)) =>
        \A other \in SeqsUpTo(HashFilePool, MaxHashFiles) :
            (IsFileSet(other) /\ AsSet(other) # AsSet(hList)) =>
                hashFilesSHA256(other) # hDigest

\* C6: when the PUT of item k of a plan is answered with a non-2xx status, the
\* batch aborts with an error naming item k's path; the items before k stay counted
\* (neither the batch's count nor the progress shown is reset); and from then on the
\* batch issues no PUT: none for the items after k, no second one for item k.
C6_FailFast ==
    [][\A b \in DOMAIN batches :
          /\ (batches[b].pc = "put" /\ batches'[b].pc = "failed"
                /\ batches'[b].err # <<>>) =>
                LET k == batches[b].cur
                    puts == batches'[b].puts
                IN  /\ batches'[b].err = UploadFailedText \o batches[b].items[k].relPath
                    /\ uploadPct' = uploadPct
                    /\ batches'[b].done = batches[b].done
                    /\ batches'[b].done = Len(puts) - 1
                    /\ \A i \in 1..Len(puts) :
                          /\ puts[i].item <= k
                          /\ puts[i].item = k => i = Len(puts)
          /\ batches[b].pc = "failed" => batches'[b] = batches[b]
      ]_vars

C6_Witness ==
    \E b \in DOMAIN batches :
        /\ batches[b].pc = "failed" /\ batches[b].err # <<>>
        /\ Len(batches[b].items) = 3 /\ batches[b].cur = 2 /\ batches[b].done = 1
        /\ uploadPct = 33

\* C7: apart from the reset, no step of the flow takes the build step to an
\* earlier one.  The code violates it: the Back buttons of the pricing and manifest
\* steps do, and so does a proceedAfterPricing call whose hash arrives after the
\* flow has moved on to minting or vault.
C7_StepForwardOnly ==
    [][resetFlow \/ StepRank(step') >= StepRank(step)]_vars

\* C8: right after resetFlow the step is selectProduct and every piece of build
\* state has its initial value, the archive hash, the uploaded-items record and the
\* upload progress included.  The code violates it: resetFlow leaves those three.
C8_ResetRestoresAll ==
    [][resetFlow =>
          /\ step' = "selectProduct" /\ product' = "null" /\ files' = <<>>
          /\ vaultName' = <<>> /\ acceptedPrice' = FALSE /\ manifest' = <<>>
          /\ visibility' = "null" /\ endowmentUsd' = <<>>
          /\ lockedEndowment' = NullLock /\ tokenData' = NullToken
          /\ archiveHash' = EmptyHash
          /\ uploadedItems' = NullItems
          /\ uploadPct' = 0
      ]_vars

\* C9: within one build a stored lock keeps its usd, eth and usdPerEth: a step other
\* than the reset that starts and ends with a lock stored leaves the lock as it was.
\* The code violates it: continuing from the pricing step again stores a new lock
\* computed from the live rate and the field's text of that moment.
C9_LockImmutable ==
    [][(~lockedEndowment.isNull /\ ~lockedEndowment'.isNull /\ ~resetFlow) =>
          lockedEndowment' = lockedEndowment]_vars

\* the manifests in the bucket
StoredManifests == {store[k] : k \in {x \in DOMAIN store : store[x].kind = "manifest"}}

\* C10: POST /commit writes no manifest whose endowment usd is negative or not a
\* finite number.  The code violates it: Number(endowmentUsd) goes into the manifest
\* unchecked.
C10_EndowmentUsdValid ==
    \A m \in StoredManifests :
        IsFinite(m.endowment.usd) /\ ~IsNegative(m.endowment.usd)

\* C11: every endowment lock that exists has usd >= 0, usdPerEth > 0 and
\* eth = usd / usdPerEth; here for the locks POST /commit stores in a manifest.
\* The code violates it: a negative or non-numeric endowmentUsd is stored as given.
C11_LockWellFormed ==
    \A m \in StoredManifests :
        /\ ~IsNaN(m.endowment.usd) /\ ~IsNegative(m.endowment.usd)
        /\ IsPositive(m.endowment.usdPerEth)
        /\ m.endowment.eth = NumDiv(m.endowment.usd, m.endowment.usdPerEth)

\* C12: the GB billed for b bytes is max(1, ceil(b / 2^30)), whatever the product:
\* it is the n >= 1 with (n - 1) GiB < b <= n GiB, and 1 for b = 0.
C12_BilledGB ==
    pQuote # NoQuote =>
        /\ pQuote.gb >= 1
        /\ pBytes <= GiB => pQuote.gb = 1
        /\ pBytes > GiB =>
              /\ pBytes - GiB > (pQuote.gb - 2) * GiB
              /\ pBytes - GiB <= (pQuote.gb - 2) * GiB + GiB

C12_Witness ==
    pQuote # NoQuote /\ pBytes = GiB + 1 /\ pQuote.gb = 2 /\ pProduct = "Heirloom"

\* C13: whenever the step is minting or vault the vault name is not blank, the
\* price is accepted and a visibility is chosen.  The code violates it: startMint
\* tests only visibility and manifest, and the name and the checkbox can change
\* while the hash of proceedAfterPricing is awaited.
C13_RequiredFields ==
    step \in {"minting", "vault"} =>
        /\ Trim(vaultName) # <<>>
        /\ acceptedPrice
        /\ visibility # "null"

\* whether the object is a manifest with a token reference attached
HasToken(obj) == obj.kind = "manifest" /\ obj.token # NoTokenRef

\* C14: an object key that holds a manifest with a token reference keeps that very
\* object from then on.  The code violates it: a second /commit for the same key
\* writes its manifest to the same manifest key.
C14_TokenManifestKept ==
    [][\A k \in DOMAIN store : HasToken(store[k]) => store'[k] = store[k]]_vars

\* C15: when the minting of a request fails (no chain environment, mintVault
\* rejects, or tx.wait() rejects), the failure leaves the bucket as the first
\* PutObject left it: the manifest key still holds a manifest, no other object
\* changes, and unless another request writes to the same manifest key the object
\* there is the request's manifest, without a token.
C15_MintFailureKeepsManifest ==
    [][\A i \in DOMAIN cReqs :
          (cReqs[i].pc # "failed" /\ cReqs'[i].pc = "failed"
              /\ cReqs'[i].failedAt \in {"env", "mint", "wait"}) =>
             LET mk == cReqs[i].manifestKey
             IN  /\ mk \in DOMAIN store' /\ store'[mk].kind = "manifest"
                 /\ \A k \in DOMAIN store : k # mk => (k \in DOMAIN store' /\ store'[k] = store[k])
                 /\ cReqs'[i].failedAt \in {"mint", "wait"} => store' = store
                 /\ (\A j \in DOMAIN cReqs : j # i => cReqs[j].manifestKey # mk) =>
                        /\ store'[mk] = cReqs[i].manifest
                        /\ store'[mk].token = NoTokenRef
      ]_vars

C15_Witness ==
    \E i \in DOMAIN cReqs :
        /\ cReqs[i].pc = "failed" /\ cReqs[i].failedAt = "wait"
        /\ cReqs[i].manifestKey \in DOMAIN store
        /\ store[cReqs[i].manifestKey] = cReqs[i].manifest
        /\ cReqs[i].manifest.token = NoTokenRef

\* C16: while no product is picked (at the start and after resetFlow, until the
\* user picks one) the step stays selectProduct and no archive hash, uploaded-items
\* record or token data appears.  The code violates it: nothing cancels the calls
\* in flight, and their continuations set the step and the hash after the reset.
C16_NothingAfterReset ==
    [][(product = "null" /\ product' = "null") =>
          /\ step' = "selectProduct"
          /\ archiveHash' = archiveHash
          /\ uploadedItems' = uploadedItems
          /\ tokenData' = tokenData
      ]_vars

\* C17: in the items of one successful /upload/start response, files requested
\* under different relative paths have different object keys.  The code violates
\* it: the sanitizer maps "/a" and "a" to the same safePath.
C17_KeysInjective ==
    (sPc = "done" /\ sResp.status = 200) =>
        \A i, j \in 1..Len(sBody.files) :
            sBody.files[i].relPath # sBody.files[j].relPath =>
                sResp.items[i].objectKey # sResp.items[j].objectKey

\* C18: the build that resetFlow starts uses another session id than the build
\* before it (the id uploadToS3 sends to /api/upload/start and the server makes
\* the key prefix of).  The code violates it: sessionId is drawn once, at mount.
C18_SessionPerBuild ==
    [][resetFlow => sessionId' # sessionId]_vars

\* the uploadToS3 calls that are running
InFlight == {b \in DOMAIN batches : batches[b].pc \in {"plan", "put"}}

\* C19: at most one uploadToS3 call is running at a time, and `uploading` is true
\* exactly while one is.  The code violates it: a second drop starts a second
\* call at once, and whichever call ends first clears the flag.
C19_OneBatchInFlight ==
    /\ Cardinality(InFlight) <= 1
    /\ uploading <=> InFlight # {}

\* C20: while an uploadToS3 call is running the percentage shown never decreases,
\* and it is 100 when a call completes without error.  The code violates it: a
\* second call sets it back to 0 and the calls overwrite each other's value, and
\* a plan item without a matching local file is skipped but still counted in the
\* denominator.
C20_ProgressMonotone ==
    [][/\ InFlight # {} => uploadPct' >= uploadPct
       /\ \A b \in DOMAIN batches :
             (batches[b].pc \in {"plan", "put"} /\ batches'[b].pc = "done") =>
                 uploadPct' = 100
      ]_vars

\* whether item j of the plan of call b has a local file of the same path
Matched(b, j) == FindMatch(batches[b].source, batches[b].items[j].relPath) # 0

\* C21: a plan item whose relPath is no local file's path is skipped: no PUT is
\* issued for it, the call does not fail over it (a call fails only at the PUT of
\* a matched item, or before it has a plan), and the items after it are processed
\* in plan order: the PUTs issued so far are those of the matched items up to the
\* current one, in increasing order, all of them once the call is done.
C21_UnmatchedSkipped ==
    \A b \in DOMAIN batches :
        LET bt   == batches[b]
            upTo == IF bt.pc = "done" THEN Len(bt.items) ELSE bt.cur
        IN  /\ \A i \in 1..Len(bt.puts) : Matched(b, bt.puts[i].item)
            /\ \A i, k \in 1..Len(bt.puts) : i < k => bt.puts[i].item < bt.puts[k].item
            /\ bt.pc \in {"put", "done"} =>
                  {bt.puts[i].item : i \in 1..Len(bt.puts)}
                      = {j \in 1..upTo : Matched(b, j)}
            /\ (bt.pc = "failed" /\ bt.items # <<>>) => (bt.cur # 0 /\ Matched(b, bt.cur))

C21_Witness ==
    \E b \in DOMAIN batches :
        /\ batches[b].pc = "done" /\ Len(batches[b].items) = 2
        /\ ~Matched(b, 1)
        /\ Len(batches[b].puts) = 1 /\ batches[b].puts[1].item = 2

\* C22: when a call of uploadToS3 has finished without error (it recorded the
\* plan as uploaded), every file of its source list was PUT exactly once, to the
\* object key granted for that file's path.
C22_AllFilesTransferred ==
    \A b \in DOMAIN batches :
        batches[b].pc = "done" =>
            \A f \in 1..Len(batches[b].source) :
                LET sent == {i \in 1..Len(batches[b].puts) : batches[b].puts[i].file = f}
                IN  /\ Cardinality(sent) = 1
                    /\ \A i \in sent :
                          batches[b].puts[i].key = batches[b].items[f].uploadUrl.key

\* 16 characters out of 0-9a-f
IsHex16(id) == Len(id) = 16 /\ \A i \in 1..Len(id) : id[i] \in {"0","1","2","3","4","5","6","7","8","9"} \cup {HexLower[k] : k \in 1..6}

\* C23: the sessionId of a 200 response of /upload/start matches
\* ^[a-zA-Z0-9_-]{6,}$; a supplied id that matches is returned unchanged; any
\* other supplied value is replaced by a generated id of 16 hex characters, and
\* the session segment of every object key is the returned id, not the supplied
\* value.
C23_SessionIdWellFormed ==
    (sPc = "done" /\ sResp.status = 200) =>
        /\ SidPatternTest(sResp.sessionId)
        /\ SidPatternTest(sBody.sessionId) => sResp.sessionId = sBody.sessionId
        /\ ~SidPatternTest(sBody.sessionId) =>
              /\ IsHex16(sResp.sessionId)
              /\ sResp.sessionId # sBody.sessionId
        /\ \A i \in 1..Len(sResp.items) :
              /\ Len(Segments(sResp.items[i].objectKey)) >= 2
              /\ Segments(sResp.items[i].objectKey)[2] = sResp.sessionId

C23_Witness ==
    /\ sPc = "done" /\ sResp.status = 200
    /\ sBody.sessionId = <<".",".","/",".",".","/","x">>
    /\ IsHex16(sResp.sessionId)
    /\ sResp.items # <<>>

\* the positions of the log with event e
LogAt(e) == {i \in 1..Len(cLog) : cLog[i].e = e}

\* C24: no read-and-digest step of sha256Hex or of hashFilesSHA256 holds more
\* than chunkSize bytes of file data, and the digest updates cover the input once
\* and in order: the first starts at byte 0, each starts where the one before it
\* ended, and the last one of a finished run ends at the total size.  The code
\* violates it: hashFilesSHA256 reads every file whole and digests one buffer.
C24_BoundedChunks ==
    /\ cHeld <= chunkSize
    /\ \A i \in LogAt("update") :
          /\ cLog[i].to - cLog[i].from <= chunkSize
          /\ cLog[i].from =
                IF \E k \in LogAt("update") : k < i
                THEN cLog[CHOOSE k \in LogAt("update") :
                            k < i /\ \A l \in LogAt("update") : l < i => l <= k].to
                ELSE 0
    /\ cPc \in {"done", "hashed"} =>
          \A i \in LogAt("digest") : cLog[i].to = cTotal /\ cOffset = cTotal

\* C25: in sha256Hex every digest update is followed, before the next update
\* and before the final digest, by exactly one wait for an animation frame, and
\* the progress callback of the chunk (when one was passed) comes between the
\* update and that wait, reporting the offset the update reached.
C25_YieldAfterEachChunk ==
    cPc \in {"read", "frame", "done"} =>
        \A i \in LogAt("update") :
            LET later == {k \in LogAt("update") \cup LogAt("digest") : k > i}
                next  == IF later = {} THEN Len(cLog) + 1
                         ELSE CHOOSE k \in later : \A l \in later : k <= l
                ys    == {j \in LogAt("yield") : i < j /\ j < next}
                ps    == {j \in LogAt("progress") : i < j /\ j < next}
            IN  /\ Cardinality(ys) <= 1
                /\ (later # {} \/ cPc = "read") => Cardinality(ys) = 1
                /\ Cardinality(ps) = IF cOnProgress THEN 1 ELSE 0
                /\ \A j \in ps : /\ cLog[j].from = cLog[i].to
                                  /\ \A y \in ys : j < y

C25_Witness ==
    /\ cPc = "done" /\ cOnProgress
    /\ Cardinality(LogAt("update")) >= 2
    /\ Cardinality(LogAt("yield")) = Cardinality(LogAt("update"))

\* the files below an entry, each with the names of the directories above it,
\* from the traversed entry down
RECURSIVE FilesUnder(_, _)
FilesUnder(entry, ancestors) ==
    IF entry.kind = "file" THEN {[name |-> entry.name, ancestors |-> ancestors]}
    ELSE UNION { FilesUnder(entry.children[i], Append(ancestors, entry.name)) :
                    i \in 1..Len(entry.children) }

\* the names joined by '/'
RECURSIVE JoinSlash(_)
JoinSlash(names) ==
    IF Len(names) = 1 THEN names[1]
    ELSE names[1] \o <<"/">> \o JoinSlash(Tail(names))

C27_ManifestKeyDistinct ==
    \A i \in DOMAIN cReqs :
        cReqs[i].manifest # NoManifest =>
            /\ cReqs[i].manifestKey # cReqs[i].body.key
            /\ store[cReqs[i].body.key] = FileObject

\* C28: the token id a request puts into its manifest and its response is the id
\* its own mintVault transaction minted, and no two requests record the same
\* token id.  The code violates it: the id is read back as nextId() - 1 after the
\* wait, when another request's mint may already have advanced the counter.
C28_OwnTokenId ==
    /\ \A i \in DOMAIN cReqs :
          cReqs[i].manifest # NoManifest /\ cReqs[i].manifest.token # NoTokenRef =>
              cReqs[i].manifest.token.tokenId = cReqs[i].minted
    /\ \A i, j \in DOMAIN cReqs :
          (i # j /\ cReqs[i].resp.status = 200 /\ cReqs[j].resp.status = 200) =>
              cReqs[i].resp.tokenId # cReqs[j].resp.tokenId

\* C29: whenever the step is manifest, minting or vault, the archive hash is the
\* one proceedAfterPricing computes for the files selected now.  The code
\* violates it: a hash still being computed is stored when it arrives, whatever
\* happened to the file list in between.
C29_HashOfCurrentFiles ==
    step \in {"manifest", "minting", "vault"} =>
        archiveHash = IF files # <<>> THEN hashFilesSHA256(files) ELSE EmptyHash

\* C30: whenever the step is vault, the uploaded-items record is there and has
\* an item for every selected file.  The code violates it: the steps from upload
\* to vault never look at uploadedItems, and files chosen with the file picker
\* are never uploaded.
C30_VaultOnlyAfterUpload ==
    step = "vault" =>
        /\ ~uploadedItems.isNull
        /\ \A i \in 1..Len(files) :
              \E k \in 1..Len(uploadedItems.items) :
                  uploadedItems.items[k].relPath = files[i].fullPath

=============================================================================
